---- MODULE Spec2Model ----
(***************************************************************************)
(* Model of the customer analytics pipeline:                               *)
(*   scripts/generate_customer_analytics.py  (load, preprocess, join,      *)
(*                                            write the analytics table)   *)
(*   scripts/customer_analytics.py           (metrics, lifetime value,     *)
(*                                            risk score, segments, sort,  *)
(*                                            write the segment table)     *)
(* A data frame is a sequence of rows, a row is a record.  A float cell is *)
(* an exact rational [n, d] with d > 0, or NaN, written [n |-> 0, d |-> 0].*)
(***************************************************************************)
EXTENDS Integers, Sequences, FiniteSets, TLC

VARIABLES customers, policies, claims, fraud, today, pc, frames,
          first_policy, customer_analytics, enhanced_csv, df, segments_csv

vars == <<customers, policies, claims, fraud, today, pc, frames,
          first_policy, customer_analytics, enhanced_csv, df, segments_csv>>

----------------------------------------------------------------------------
(* Bounds of the explored inputs *)

\* total number of policy, claim and fraud detection rows in the input files
MaxRows == 5

\* number of claim rows in the input files of SpecClaims
MaxClaims == 3

----------------------------------------------------------------------------
(* float64 cells: exact rationals and NaN *)

NaN == [n |-> 0, d |-> 0]

IsNaN(x) == x.d = 0

Abs(i) == IF i < 0 THEN 0 - i ELSE i

RECURSIVE GCD(_, _)
GCD(a, b) == IF b = 0 THEN a ELSE GCD(b, a % b)

Rat(num, den) ==
    IF den = 0 THEN NaN
    ELSE LET g == GCD(Abs(num), Abs(den))
             s == IF den < 0 THEN 0 - 1 ELSE 1
         IN  [n |-> s * (num \div g), d |-> s * (den \div g)]

Num(i) == [n |-> i, d |-> 1]

Zero == Num(0)

Add(x, y) == IF IsNaN(x) \/ IsNaN(y) THEN NaN
             ELSE Rat(x.n * y.d + y.n * x.d, x.d * y.d)

Sub(x, y) == IF IsNaN(x) \/ IsNaN(y) THEN NaN
             ELSE Rat(x.n * y.d - y.n * x.d, x.d * y.d)

Mul(x, y) == IF IsNaN(x) \/ IsNaN(y) THEN NaN
             ELSE Rat(x.n * y.n, x.d * y.d)

\* x / y for y # 0 (the code guards or masks every division by zero)
Div(x, y) == IF IsNaN(x) \/ IsNaN(y) THEN NaN
             ELSE Rat(x.n * y.d, x.d * y.n)

\* comparisons: every comparison with NaN is False
Lt(x, y) == ~IsNaN(x) /\ ~IsNaN(y) /\ x.n * y.d < y.n * x.d

Le(x, y) == ~IsNaN(x) /\ ~IsNaN(y) /\ x.n * y.d <= y.n * x.d

Gt(x, y) == Lt(y, x)

Ge(x, y) == Le(y, x)

\* np.clip(x, lo, hi) = minimum(maximum(x, lo), hi): NaN stays NaN
Clip(x, lo, hi) == IF IsNaN(x) THEN NaN
                   ELSE IF Lt(x, lo) THEN lo
                   ELSE IF Gt(x, hi) THEN hi
                   ELSE x

\* Series.clip(lower=lo)
ClipLower(x, lo) == IF IsNaN(x) THEN NaN ELSE IF Lt(x, lo) THEN lo ELSE x

\* Series.fillna(v)
FillNa(x, v) == IF IsNaN(x) THEN v ELSE x

----------------------------------------------------------------------------
(* data frame helpers *)

\* a missing join key (NaN in an id column)
NaKey == 0 - 1

Rows(t) == {t[i] : i \in 1..Len(t)}

RECURSIVE SortedKeys(_)
SortedKeys(S) ==
    IF S = {} THEN <<>>
    ELSE LET m == CHOOSE x \in S : \A y \in S : x <= y
         IN  <<m>> \o SortedKeys(S \ {m})

\* the group keys of groupby(col): sorted, NaN keys dropped
GroupKeys(t, col) == SortedKeys({t[i][col] : i \in 1..Len(t)} \ {NaKey})

Group(t, col, k) == SelectSeq(t, LAMBDA r : r[col] = k)

\* 'count': the non-null cells
RECURSIVE ColCount(_, _)
ColCount(g, col) ==
    IF g = <<>> THEN 0
    ELSE (IF IsNaN(Head(g)[col]) THEN 0 ELSE 1) + ColCount(Tail(g), col)

\* 'sum': nulls skipped, 0 for a group with no value
RECURSIVE ColSum(_, _)
ColSum(g, col) ==
    IF g = <<>> THEN Zero
    ELSE Add(FillNa(Head(g)[col], Zero), ColSum(Tail(g), col))

\* 'mean': nulls skipped, NaN for a group with no value
ColMean(g, col) ==
    IF ColCount(g, col) = 0 THEN NaN
    ELSE Div(ColSum(g, col), Num(ColCount(g, col)))

\* 'max': nulls skipped, NaN for a group with no value
RECURSIVE ColMax(_, _)
ColMax(g, col) ==
    IF g = <<>> THEN NaN
    ELSE LET h == Head(g)[col]
             m == ColMax(Tail(g), col)
         IN  IF IsNaN(h) THEN m
             ELSE IF IsNaN(m) THEN h
             ELSE IF Lt(h, m) THEN m ELSE h

Project(r, cols) == [c \in cols |-> r[c]]

\* pd.merge(left, right, on=key, how='left'): the left rows in their order,
\* one output row per matching right row, the right columns null without one
RECURSIVE LeftMerge(_, _, _, _)
LeftMerge(left, right, key, missing) ==
    IF left = <<>> THEN <<>>
    ELSE LET l == Head(left)
             m == SelectSeq(right, LAMBDA r : r[key] = l[key])
             out == IF m = <<>> THEN <<l @@ missing>>
                    ELSE [j \in 1..Len(m) |-> l @@ Project(m[j], DOMAIN missing)]
         IN  out \o LeftMerge(Tail(left), right, key, missing)

----------------------------------------------------------------------------
(* the input files *)

\* customer_id of the rows of the customers file (unique), in file order
CustomerIds == <<1, 2>>

\* customer_id values of policy rows: the customers, and one id that is in no
\* customers row
PolicyCustomerIds == {1, 2, 3}

PolicyKinds ==
    << [status |-> "ACTIVE", annual_premium |-> 100, coverage_amount |-> 5000,
        start_date |-> 0],
       [status |-> "LAPSED", annual_premium |-> 300, coverage_amount |-> 9000,
        start_date |-> 335] >>

ClaimAmounts == <<50, 400>>

\* is_fraudulent: False is 0 and True is 1, as numpy sums and compares them
FraudKinds ==
    << [is_fraudulent |-> Num(0), confidence_score |-> Rat(1, 5)],
       [is_fraudulent |-> Num(1), confidence_score |-> Rat(9, 10)] >>

\* the day pd.to_datetime('today') falls on
TodayDates == {365}

\* a file left by an earlier run
PrevFile == << [stale |-> TRUE] >>

NoFrames == [customers |-> <<>>, policies |-> <<>>, claims |-> <<>>, fraud |-> <<>>]

\* The rows of a file are <<reference, kind>> pairs listed in ascending order:
\* groupby and merge do not depend on the row order of policies, claims and
\* detections, and ids are the row numbers, so every file is one of these up to
\* the order of its rows.  policy_id and claim_id are unique (the row number).
PairLe(x, y) == x[1] < y[1] \/ (x[1] = y[1] /\ x[2] <= y[2])

Ascending(s) == \A i \in 1..(Len(s) - 1) : PairLe(s[i], s[i + 1])

Choices(n, refs, kinds) == {s \in [1..n -> refs \X (1..kinds)] : Ascending(s)}

PolicyTable(s) ==
    [i \in 1..Len(s) |->
        LET k == PolicyKinds[s[i][2]]
        IN  [policy_id |-> i, customer_id |-> s[i][1], status |-> k.status,
             annual_premium |-> Num(k.annual_premium),
             coverage_amount |-> Num(k.coverage_amount),
             start_date |-> k.start_date]]

ClaimTable(s) ==
    [i \in 1..Len(s) |->
        [claim_id |-> i, policy_id |-> s[i][1],
         claim_amount |-> Num(ClaimAmounts[s[i][2]])]]

FraudTable(s) ==
    [i \in 1..Len(s) |-> [claim_id |-> s[i][1]] @@ FraudKinds[s[i][2]]]

CustomerTable ==
    [i \in 1..Len(CustomerIds) |->
        [customer_id |-> CustomerIds[i], registration_date |-> 0]]

\* Every input file holds at least one row, so that read_csv infers the column
\* types from data.  A policy may name a customer_id that is in no customers
\* row, a claim a policy_id that is in no policies row (the number of policies
\* plus one), a detection a claim_id that is in no claims row.  The columns
\* name, age, email, city, policy_type, claim status and the dict/list columns
\* built from them are carried along by the code and left out here.
Init ==
    /\ customers = CustomerTable
    /\ \E np \in 1..(MaxRows - 2) :
       \E sp \in Choices(np, PolicyCustomerIds, Len(PolicyKinds)) :
       \E nc \in 1..(MaxRows - 1 - np) :
       \E sc \in Choices(nc, 1..(np + 1), Len(ClaimAmounts)) :
       \E nf \in 1..(MaxRows - np - nc) :
       \E sf \in Choices(nf, 1..(nc + 1), Len(FraudKinds)) :
          /\ policies = PolicyTable(sp)
          /\ claims = ClaimTable(sc)
          /\ fraud = FraudTable(sf)
    /\ today \in TodayDates
    /\ pc = "gen_start"
    /\ frames = NoFrames
    /\ first_policy = <<>>
    /\ customer_analytics = <<>>
    /\ enhanced_csv = PrevFile
    /\ df = <<>>
    /\ segments_csv = PrevFile

\* Input files with more claims: one or two policies, up to MaxClaims claims on
\* them (or on an unknown policy) and one detection.
InitClaims ==
    /\ customers = CustomerTable
    /\ \E np \in 1..2 :
       \E sp \in Choices(np, PolicyCustomerIds, Len(PolicyKinds)) :
       \E nc \in 1..MaxClaims :
       \E sc \in Choices(nc, 1..(np + 1), Len(ClaimAmounts)) :
       \E sf \in Choices(1, 1..(nc + 1), Len(FraudKinds)) :
          /\ policies = PolicyTable(sp)
          /\ claims = ClaimTable(sc)
          /\ fraud = FraudTable(sf)
    /\ today \in TodayDates
    /\ pc = "gen_start"
    /\ frames = NoFrames
    /\ first_policy = <<>>
    /\ customer_analytics = <<>>
    /\ enhanced_csv = PrevFile
    /\ df = <<>>
    /\ segments_csv = PrevFile

----------------------------------------------------------------------------
(* generate_customer_analytics.py *)

load_data ==
    /\ pc = "gen_start"
    /\ frames' = [customers |-> customers, policies |-> policies,
                  claims |-> claims, fraud |-> fraud]
    /\ pc' = "gen_loaded"
    /\ UNCHANGED <<customers, policies, claims, fraud, today, first_policy,
                   customer_analytics, enhanced_csv, df, segments_csv>>

\* (current_date - date).dt.days
TenureDays(current_date, date) == Num(current_date - date)

MinStartDate(g) ==
    CHOOSE m \in {g[i].start_date : i \in 1..Len(g)} :
        \A i \in 1..Len(g) : m <= g[i].start_date

\* days since the first policy of each customer
FirstPolicy(pol, current_date) ==
    LET ks == GroupKeys(pol, "customer_id")
    IN  [j \in 1..Len(ks) |->
            [customer_id |-> ks[j],
             policy_tenure_days |->
                 TenureDays(current_date,
                            MinStartDate(Group(pol, "customer_id", ks[j])))]]

CustomersWithTenure(cust, current_date) ==
    [i \in 1..Len(cust) |->
        cust[i] @@ [customer_tenure_days |->
                        TenureDays(current_date, cust[i].registration_date)]]

preprocess_data ==
    /\ pc = "gen_loaded"
    /\ frames' = [frames EXCEPT
                    !.customers = CustomersWithTenure(frames.customers, today)]
    /\ first_policy' = FirstPolicy(frames.policies, today)
    /\ pc' = "gen_preprocessed"
    /\ UNCHANGED <<customers, policies, claims, fraud, today,
                   customer_analytics, enhanced_csv, df, segments_csv>>

\* 1. policy metrics by customer
policy_metrics(pol) ==
    LET ks == GroupKeys(pol, "customer_id")
    IN  [j \in 1..Len(ks) |->
            LET g == Group(pol, "customer_id", ks[j])
            IN  [customer_id |-> ks[j],
                 total_policies |-> Num(Len(g)),
                 active_policies |->
                     Num(Len(SelectSeq(g, LAMBDA r : r.status = "ACTIVE"))),
                 avg_annual_premium |-> ColMean(g, "annual_premium"),
                 total_coverage |-> ColSum(g, "coverage_amount")]]

\* 2. claims metrics by policy
claims_metrics(cl) ==
    LET ks == GroupKeys(cl, "policy_id")
    IN  [j \in 1..Len(ks) |->
            LET g == Group(cl, "policy_id", ks[j])
            IN  [policy_id |-> ks[j],
                 total_claims |-> Num(Len(g)),
                 total_claimed_amount |-> ColSum(g, "claim_amount"),
                 avg_claim_amount |-> ColMean(g, "claim_amount")]]

\* fraud metrics that count the detection records of a claim ('count')
fraud_metrics_count(fr) ==
    LET ks == GroupKeys(fr, "claim_id")
    IN  [j \in 1..Len(ks) |->
            LET g == Group(fr, "claim_id", ks[j])
            IN  [claim_id |-> ks[j],
                 fraud_detected |-> ColMax(g, "is_fraudulent"),
                 detection_count |-> Num(ColCount(g, "is_fraudulent")),
                 avg_confidence |-> ColMean(g, "confidence_score")]]

\* 3. fraud metrics by claim
fraud_metrics(fr) ==
    LET ks == GroupKeys(fr, "claim_id")
    IN  [j \in 1..Len(ks) |->
            LET g == Group(fr, "claim_id", ks[j])
            IN  [claim_id |-> ks[j],
                 fraud_detected |-> ColMax(g, "is_fraudulent"),
                 detection_count |-> ColSum(g, "is_fraudulent"),
                 avg_confidence |-> ColMean(g, "confidence_score")]]

RECURSIVE DropDuplicates(_)
DropDuplicates(t) ==
    IF t = <<>> THEN <<>>
    ELSE LET front == DropDuplicates(SubSeq(t, 1, Len(t) - 1))
             last == t[Len(t)]
         IN  IF last \in Rows(front) THEN front ELSE Append(front, last)

\* 4.1 policy-customer mapping
policy_customer_map(pol) ==
    DropDuplicates([i \in 1..Len(pol) |->
                       Project(pol[i], {"policy_id", "customer_id"})])

NoClaimMetrics ==
    [total_claims |-> NaN, total_claimed_amount |-> NaN, avg_claim_amount |-> NaN]

\* 4.2 claims metrics merged onto the policy-customer mapping
policy_claims(pol, cl) ==
    LeftMerge(policy_customer_map(pol), claims_metrics(cl), "policy_id",
              NoClaimMetrics)

\* customer_claims with every column aggregated by 'mean'
customer_claims_all_mean(pol, cl) ==
    LET t == policy_claims(pol, cl)
        ks == GroupKeys(t, "customer_id")
    IN  [j \in 1..Len(ks) |->
            LET g == Group(t, "customer_id", ks[j])
            IN  [customer_id |-> ks[j],
                 total_claims |-> ColMean(g, "total_claims"),
                 total_claimed_amount |-> ColMean(g, "total_claimed_amount"),
                 avg_claim_amount |-> ColMean(g, "avg_claim_amount")]]

\* 4.3 claims aggregated at customer level
customer_claims(pol, cl) ==
    LET t == policy_claims(pol, cl)
        ks == GroupKeys(t, "customer_id")
    IN  [j \in 1..Len(ks) |->
            LET g == Group(t, "customer_id", ks[j])
            IN  [customer_id |-> ks[j],
                 total_claims |-> ColSum(g, "total_claims"),
                 total_claimed_amount |-> ColSum(g, "total_claimed_amount"),
                 avg_claim_amount |-> ColMean(g, "avg_claim_amount")]]

NoFraudMetrics ==
    [fraud_detected |-> NaN, detection_count |-> NaN, avg_confidence |-> NaN]

\* 4.4 fraud metrics merged onto the claims
claims_fraud(cl, fr) ==
    LeftMerge([i \in 1..Len(cl) |-> Project(cl[i], {"claim_id", "policy_id"})],
              fraud_metrics(fr), "claim_id", NoFraudMetrics)

\* 4.5 the customer of each claim
policy_fraud(pol, cl, fr) ==
    LeftMerge(claims_fraud(cl, fr), policy_customer_map(pol), "policy_id",
              [customer_id |-> NaKey])

customer_fraud_metrics(pol, cl, fr) ==
    LET t == policy_fraud(pol, cl, fr)
        ks == GroupKeys(t, "customer_id")
    IN  [j \in 1..Len(ks) |->
            LET g == Group(t, "customer_id", ks[j])
            IN  [customer_id |-> ks[j],
                 fraud_detected |-> ColMax(g, "fraud_detected"),
                 detection_count |-> ColSum(g, "detection_count"),
                 avg_confidence |-> ColMean(g, "avg_confidence")]]

NoPolicyMetrics ==
    [total_policies |-> NaN, active_policies |-> NaN,
     avg_annual_premium |-> NaN, total_coverage |-> NaN]

\* 5.1 - 5.3 policy metrics, claims, fraud and policy tenure per customer
customer_metrics(pol, cl, fr, fp) ==
    LeftMerge(
        LeftMerge(
            LeftMerge(policy_metrics(pol), customer_claims(pol, cl),
                      "customer_id", NoClaimMetrics),
            customer_fraud_metrics(pol, cl, fr), "customer_id", NoFraudMetrics),
        fp, "customer_id", [policy_tenure_days |-> NaN])

\* the last merge with how='inner'
MergeCustomersInner(cust, metrics) ==
    SelectSeq(LeftMerge(cust, metrics, "customer_id",
                        NoPolicyMetrics @@ NoClaimMetrics @@ NoFraudMetrics
                            @@ [policy_tenure_days |-> NaN]),
              LAMBDA r : \E i \in 1..Len(metrics) :
                             metrics[i].customer_id = r.customer_id)

\* 5.4 the metrics merged onto the customers
MergeCustomers(cust, metrics) ==
    LeftMerge(cust, metrics, "customer_id",
              NoPolicyMetrics @@ NoClaimMetrics @@ NoFraudMetrics
                  @@ [policy_tenure_days |-> NaN])

\* select_dtypes(include=[np.number]): fraud_detected is a bool/object column
NumericCols ==
    {"customer_tenure_days", "policy_tenure_days", "total_policies",
     "active_policies", "avg_annual_premium", "total_coverage", "total_claims",
     "total_claimed_amount", "avg_claim_amount", "detection_count",
     "avg_confidence"}

\* step 6 left out
FillNothing(r) == r

\* 6. fill NaN values of the numeric columns
FillNumeric(r) ==
    [c \in DOMAIN r |-> IF c \in NumericCols THEN FillNa(r[c], Zero) ELSE r[c]]

\* Series.replace(0, np.nan)
ReplaceZero(x) == IF x = Zero THEN NaN ELSE x

\* 7. derived metrics
DerivedMetrics(r) ==
    r @@ [claims_per_policy |-> Div(r.total_claims, ReplaceZero(r.total_policies)),
          fraud_rate |-> Div(r.detection_count, ReplaceZero(r.total_claims))]

FinalColumns ==
    {"customer_id", "registration_date", "customer_tenure_days",
     "policy_tenure_days", "total_policies", "active_policies", "total_claims",
     "total_claimed_amount", "avg_claim_amount", "fraud_detected",
     "detection_count", "avg_confidence", "claims_per_policy", "fraud_rate",
     "avg_annual_premium", "total_coverage"}

CreateCustomerAnalytics(cust, pol, cl, fr, fp) ==
    LET merged == MergeCustomers(cust, customer_metrics(pol, cl, fr, fp))
    IN  [i \in 1..Len(merged) |->
            Project(DerivedMetrics(FillNumeric(merged[i])), FinalColumns)]

create_customer_analytics ==
    /\ pc = "gen_preprocessed"
    /\ customer_analytics' =
           CreateCustomerAnalytics(frames.customers, frames.policies,
                                   frames.claims, frames.fraud, first_policy)
    /\ pc' = "gen_analytics"
    /\ UNCHANGED <<customers, policies, claims, fraud, today, frames,
                   first_policy, enhanced_csv, df, segments_csv>>

\* DataFrame.to_csv: a null cell is written as an empty field
CsvCell(x) == IF IsNaN(x) THEN [empty |-> TRUE, value |-> Zero]
              ELSE [empty |-> FALSE, value |-> x]

\* pd.read_csv: an empty field is read as NaN
ReadCell(c) == IF c.empty THEN NaN ELSE c.value

\* columns holding ids and dates, which are never null here
PlainCols == {"customer_id", "registration_date", "segment"}

ToCsv(t) ==
    [i \in 1..Len(t) |->
        [c \in DOMAIN t[i] |->
            IF c \in PlainCols THEN t[i][c] ELSE CsvCell(t[i][c])]]

ReadCsv(f) ==
    [i \in 1..Len(f) |->
        [c \in DOMAIN f[i] |->
            IF c \in PlainCols THEN f[i][c] ELSE ReadCell(f[i][c])]]

\* main: customer_analytics.to_csv(output_path); the script ends, its frames
\* are gone
gen_save ==
    /\ pc = "gen_analytics"
    /\ enhanced_csv' = ToCsv(customer_analytics)
    /\ pc' = "gen_done"
    /\ frames' = NoFrames
    /\ first_policy' = <<>>
    /\ customer_analytics' = <<>>
    /\ UNCHANGED <<customers, policies, claims, fraud, today, df, segments_csv>>

\* main: a load or a stage raises, the process ends with the traceback
gen_raise ==
    /\ pc \in {"gen_start", "gen_loaded", "gen_preprocessed"}
    /\ pc' = "gen_failed"
    /\ frames' = NoFrames
    /\ first_policy' = <<>>
    /\ customer_analytics' = <<>>
    /\ UNCHANGED <<customers, policies, claims, fraud, today, enhanced_csv, df,
                   segments_csv>>

----------------------------------------------------------------------------
(* customer_analytics.py; its input file is the table written above *)

LoadAndPrepareRow(r) ==
    [r EXCEPT !.fraud_detected = FillNa(r.fraud_detected, Zero),
              !.detection_count = FillNa(r.detection_count, Zero)]

LoadAndPrepareData(file) ==
    LET t == ReadCsv(file)
    IN  [i \in 1..Len(t) |-> LoadAndPrepareRow(t[i])]

load_and_prepare_data ==
    /\ pc = "gen_done"
    /\ df' = LoadAndPrepareData(enhanced_csv)
    /\ pc' = "ca_loaded"
    /\ UNCHANGED <<customers, policies, claims, fraud, today, frames,
                   first_policy, customer_analytics, enhanced_csv, segments_csv>>

AnnualPremiumSum(active_policies, avg_annual_premium) ==
    Mul(active_policies, avg_annual_premium)

CalculateMetricsRow(r) ==
    [policy_tenure_days |-> FillNa(r.policy_tenure_days, Zero),
     total_claims |-> FillNa(r.total_claims, Zero),
     total_claim_amount |-> FillNa(r.total_claimed_amount, Zero),
     annual_premium_sum |->
         AnnualPremiumSum(r.active_policies, r.avg_annual_premium),
     fraud_claims |-> r.detection_count] @@ r

calculate_metrics ==
    /\ pc = "ca_loaded"
    /\ df' = [i \in 1..Len(df) |-> CalculateMetricsRow(df[i])]
    /\ pc' = "ca_metrics"
    /\ UNCHANGED <<customers, policies, claims, fraud, today, frames,
                   first_policy, customer_analytics, enhanced_csv, segments_csv>>

\* the operands of the subtraction swapped
LifetimeValueSwapped(annual_premium_sum, total_claim_amount) ==
    Sub(total_claim_amount, annual_premium_sum)

LifetimeValue(annual_premium_sum, total_claim_amount) ==
    Sub(annual_premium_sum, total_claim_amount)

\* np.where(annual_premium_sum > 0, total_claim_amount / annual_premium_sum, nan)
LossRatio(annual_premium_sum, total_claim_amount) ==
    IF Gt(annual_premium_sum, Zero)
    THEN Div(total_claim_amount, annual_premium_sum)
    ELSE NaN

CalculateLifetimeRow(r) ==
    [lifetime_value |-> LifetimeValue(r.annual_premium_sum, r.total_claim_amount),
     loss_ratio |-> LossRatio(r.annual_premium_sum, r.total_claim_amount)] @@ r

calculate_lifetime_metrics ==
    /\ pc = "ca_metrics"
    /\ df' = [i \in 1..Len(df) |-> CalculateLifetimeRow(df[i])]
    /\ pc' = "ca_lifetime"
    /\ UNCHANGED <<customers, policies, claims, fraud, today, frames,
                   first_policy, customer_analytics, enhanced_csv, segments_csv>>

LossRatioWeight == 50

LossRatioCap == 50

FraudWeight == 3

FraudCap == 30

FrequencyWeight == 4

FrequencyCap == 20

\* 365.25
DaysPerYear == Rat(1461, 4)

LossRatioScore(loss_ratio) ==
    Clip(Mul(loss_ratio, Num(LossRatioWeight)), Zero, Num(LossRatioCap))

FraudScore(fraud_claims) ==
    Clip(Mul(fraud_claims, Num(FraudWeight)), Zero, Num(FraudCap))

ClaimsPerYear(total_claims, policy_tenure_days) ==
    Div(total_claims, Div(ClipLower(policy_tenure_days, Num(1)), DaysPerYear))

FrequencyScore(claims_per_year) ==
    Clip(Mul(claims_per_year, Num(FrequencyWeight)), Zero, Num(FrequencyCap))

RiskScore(loss_ratio, fraud_claims, total_claims, policy_tenure_days) ==
    Add(Add(LossRatioScore(loss_ratio), FraudScore(fraud_claims)),
        FrequencyScore(ClaimsPerYear(total_claims, policy_tenure_days)))

CalculateRiskRow(r) ==
    [risk_score |-> RiskScore(r.loss_ratio, r.fraud_claims, r.total_claims,
                              r.policy_tenure_days)] @@ r

calculate_risk_score ==
    /\ pc = "ca_lifetime"
    /\ df' = [i \in 1..Len(df) |-> CalculateRiskRow(df[i])]
    /\ pc' = "ca_risk"
    /\ UNCHANGED <<customers, policies, claims, fraud, today, frames,
                   first_policy, customer_analytics, enhanced_csv, segments_csv>>

LowRisk == 40

HighRisk == 60

\* the third rule without its lifetime_value test
SegmentConditionsAnyValue(lifetime_value, risk_score) ==
    << Ge(lifetime_value, Zero) /\ Le(risk_score, Num(LowRisk)),
       Ge(lifetime_value, Zero) /\ Gt(risk_score, Num(LowRisk))
           /\ Le(risk_score, Num(HighRisk)),
       Gt(risk_score, Num(HighRisk)),
       TRUE >>

SegmentConditions(lifetime_value, risk_score) ==
    << Ge(lifetime_value, Zero) /\ Le(risk_score, Num(LowRisk)),
       Ge(lifetime_value, Zero) /\ Gt(risk_score, Num(LowRisk))
           /\ Le(risk_score, Num(HighRisk)),
       Lt(lifetime_value, Zero) /\ Gt(risk_score, Num(HighRisk)),
       TRUE >>

SegmentNames ==
    <<"Premium Partner", "Growth Prospect", "Risk Management", "Watch List">>

\* np.select(condlist, choicelist, default): the choice of the first true condition
NpSelect(condlist, choicelist, default) ==
    IF \E i \in 1..Len(condlist) : condlist[i]
    THEN choicelist[CHOOSE i \in 1..Len(condlist) :
                        condlist[i] /\ \A j \in 1..(i - 1) : ~condlist[j]]
    ELSE default

Segment(lifetime_value, risk_score) ==
    NpSelect(SegmentConditions(lifetime_value, risk_score), SegmentNames,
             "Watch List")

AssignSegmentRow(r) ==
    [segment |-> Segment(r.lifetime_value, r.risk_score)] @@ r

assign_segments ==
    /\ pc = "ca_risk"
    /\ df' = [i \in 1..Len(df) |-> AssignSegmentRow(df[i])]
    /\ pc' = "ca_segments"
    /\ UNCHANGED <<customers, policies, claims, fraud, today, frames,
                   first_policy, customer_analytics, enhanced_csv, segments_csv>>

OutputCols ==
    {"customer_id", "lifetime_value", "loss_ratio", "risk_score", "segment",
     "total_claims", "total_claim_amount", "annual_premium_sum", "fraud_claims",
     "policy_tenure_days"}

\* the order sort_values('lifetime_value') leaves, ascending by default
SortedAscending(t) ==
    \A i \in 1..(Len(t) - 1) :
        \/ IsNaN(t[i + 1].lifetime_value)
        \/ Le(t[i].lifetime_value, t[i + 1].lifetime_value)

\* the order sort_values('lifetime_value', ascending=False) leaves: descending,
\* nulls last; the order of equal values is not fixed (quicksort)
SortedByLifetimeValue(t) ==
    \A i \in 1..(Len(t) - 1) :
        \/ IsNaN(t[i + 1].lifetime_value)
        \/ Ge(t[i].lifetime_value, t[i + 1].lifetime_value)

Orders(n) == {p \in [1..n -> 1..n] : \A i, j \in 1..n : p[i] = p[j] => i = j}

\* main: select the output columns, sort, write the segment table
ca_save ==
    /\ pc = "ca_segments"
    /\ \E p \in Orders(Len(df)) :
          LET result == [i \in 1..Len(df) |-> Project(df[p[i]], OutputCols)]
          IN  /\ SortedByLifetimeValue(result)
              /\ segments_csv' = ToCsv(result)
    /\ pc' = "ca_done"
    /\ UNCHANGED <<customers, policies, claims, fraud, today, frames,
                   first_policy, customer_analytics, enhanced_csv, df>>

\* an except clause that saves the frame it has before re-raising
ca_raise_saving ==
    /\ pc \in {"gen_done", "ca_loaded", "ca_metrics", "ca_lifetime", "ca_risk",
               "ca_segments"}
    /\ pc' = "ca_failed"
    /\ segments_csv' = ToCsv(df)
    /\ df' = <<>>
    /\ UNCHANGED <<customers, policies, claims, fraud, today, frames,
                   first_policy, customer_analytics, enhanced_csv>>

\* main: a stage raises; the except clause prints the error and re-raises
ca_raise ==
    /\ pc \in {"gen_done", "ca_loaded", "ca_metrics", "ca_lifetime", "ca_risk",
               "ca_segments"}
    /\ pc' = "ca_failed"
    /\ df' = <<>>
    /\ UNCHANGED <<customers, policies, claims, fraud, today, frames,
                   first_policy, customer_analytics, enhanced_csv, segments_csv>>

Next ==
    \/ load_data
    \/ preprocess_data
    \/ create_customer_analytics
    \/ gen_save
    \/ gen_raise
    \/ load_and_prepare_data
    \/ calculate_metrics
    \/ calculate_lifetime_metrics
    \/ calculate_risk_score
    \/ assign_segments
    \/ ca_save
    \/ ca_raise

Spec == Init /\ [][Next]_vars

SpecClaims == InitClaims /\ [][Next]_vars

----------------------------------------------------------------------------
(* Properties *)

\* the analytics table exists as a frame, then as the file just written
AnalyticsStages == {"gen_analytics", "gen_done"}

\* the stages after the analytics file was written
WrittenStages ==
    {"gen_done", "ca_loaded", "ca_metrics", "ca_lifetime", "ca_risk",
     "ca_segments", "ca_done", "ca_failed"}

LifetimeStages == {"ca_lifetime", "ca_risk", "ca_segments", "ca_done"}

RiskStages == {"ca_risk", "ca_segments", "ca_done"}

SegmentStages == {"ca_segments", "ca_done"}

\* the analytics table: the frame, and then the file written from it
AnalyticsTable ==
    IF pc = "gen_analytics" THEN customer_analytics ELSE ReadCsv(enhanced_csv)

\* the input policy rows of customer c, and the input claim rows on them
PoliciesOf(c) == {j \in 1..Len(policies) : policies[j].customer_id = c}

ClaimsOf(c) ==
    {i \in 1..Len(claims) :
        \E j \in PoliciesOf(c) : policies[j].policy_id = claims[i].policy_id}

DetectionsOf(c) ==
    {k \in 1..Len(fraud) :
        \E i \in ClaimsOf(c) : claims[i].claim_id = fraud[k].claim_id}

\* C1: every risk_score is a number between 0 and 100
C1_RiskScoreInRange ==
    pc \in RiskStages =>
        \A i \in 1..Len(df) :
            /\ ~IsNaN(df[i].risk_score)
            /\ Ge(df[i].risk_score, Zero)
            /\ Le(df[i].risk_score, Num(100))

\* C2: a customer with annual_premium_sum = 0 has a null loss_ratio and a
\* risk_score equal to the fraud component plus the frequency component
C2_NoPremiumBase ==
    pc \in RiskStages =>
        \A i \in 1..Len(df) :
            df[i].annual_premium_sum = Zero =>
                /\ IsNaN(df[i].loss_ratio)
                /\ df[i].risk_score =
                       Add(FraudScore(df[i].fraud_claims),
                           FrequencyScore(ClaimsPerYear(df[i].total_claims,
                                                        df[i].policy_tenure_days)))

NonNeg(x) == ~IsNaN(x) /\ x.n >= 0

Neg(x) == ~IsNaN(x) /\ x.n < 0

AtMost(x, k) == ~IsNaN(x) /\ x.n <= k * x.d

Above(x, k) == ~IsNaN(x) /\ x.n > k * x.d

\* C3: every customer has exactly one of the four labels, fixed by
\* (lifetime_value, risk_score): LTV >= 0 and risk <= 40 is Premium Partner,
\* LTV >= 0 and 40 < risk <= 60 is Growth Prospect, LTV < 0 and risk > 60 is
\* Risk Management, every other pair is Watch List
C3_SegmentRules ==
    /\ Segment(Num(100), Num(65)) = "Watch List"
    /\ Segment(Num(0 - 200), Num(75)) = "Risk Management"
    /\ pc \in SegmentStages =>
        \A i \in 1..Len(df) :
            LET ltv == df[i].lifetime_value
                risk == df[i].risk_score
                seg == df[i].segment
                premium == NonNeg(ltv) /\ AtMost(risk, 40)
                growth == NonNeg(ltv) /\ Above(risk, 40) /\ AtMost(risk, 60)
                riskmgmt == Neg(ltv) /\ Above(risk, 60)
            IN  /\ seg \in {"Premium Partner", "Growth Prospect",
                            "Risk Management", "Watch List"}
                /\ (seg = "Premium Partner") <=> premium
                /\ (seg = "Growth Prospect") <=> growth
                /\ (seg = "Risk Management") <=> riskmgmt
                /\ (seg = "Watch List") <=> ~(premium \/ growth \/ riskmgmt)
                /\ \A j \in 1..Len(df) :
                       (df[j].lifetime_value = ltv /\ df[j].risk_score = risk)
                           => df[j].segment = seg

\* a customer with LTV >= 0 and risk > 60 has been put on the Watch List
C3_Witness ==
    /\ pc = "ca_segments"
    /\ \E i \in 1..Len(df) :
          /\ NonNeg(df[i].lifetime_value)
          /\ Above(df[i].risk_score, 60)
          /\ df[i].segment = "Watch List"

IdColumn(t) == [i \in 1..Len(t) |-> t[i].customer_id]

\* C4: every customer_id of the customers file is in exactly one row of the
\* analytics table, of the file written from it and of the segment table
C4_EveryCustomerOnce ==
    /\ pc \in AnalyticsStages =>
           IdColumn(AnalyticsTable) = IdColumn(customers)
    /\ pc = "ca_done" =>
           \A c \in Rows(IdColumn(customers)) :
               Cardinality({i \in 1..Len(segments_csv) :
                               segments_csv[i].customer_id = c}) = 1

\* the segment table is written for a customer without policies and a
\* customer with several policies, and a claim with several detections
C4_Witness ==
    /\ pc = "ca_done"
    /\ \E c \in Rows(IdColumn(customers)) : PoliciesOf(c) = {}
    /\ \E c \in Rows(IdColumn(customers)) : Cardinality(PoliciesOf(c)) >= 2
    /\ \E k1, k2 \in 1..Len(fraud) :
          /\ k1 # k2
          /\ fraud[k1].claim_id = fraud[k2].claim_id
          /\ \E i \in 1..Len(claims) : claims[i].claim_id = fraud[k1].claim_id

PolicyAggregates ==
    {"total_policies", "active_policies", "avg_annual_premium", "total_coverage",
     "policy_tenure_days"}

ClaimAggregates == {"total_claims", "total_claimed_amount", "avg_claim_amount"}

FraudAggregates == {"detection_count", "avg_confidence"}

\* C5: the aggregate columns of the analytics table are never null, and are 0
\* for a customer without policies, without claims, or without detections
C5_ZeroFilled ==
    pc \in AnalyticsStages =>
        \A i \in 1..Len(AnalyticsTable) :
            LET r == AnalyticsTable[i]
                c == r.customer_id
            IN  /\ \A col \in PolicyAggregates \cup ClaimAggregates
                                  \cup FraudAggregates : ~IsNaN(r[col])
                /\ PoliciesOf(c) = {} =>
                       \A col \in PolicyAggregates : r[col] = Zero
                /\ ClaimsOf(c) = {} =>
                       \A col \in ClaimAggregates : r[col] = Zero
                /\ DetectionsOf(c) = {} =>
                       \A col \in FraudAggregates : r[col] = Zero

\* the table holds a customer without policies, one with policies and no
\* claim, or one with claims and no detection
C5_Witness ==
    /\ pc = "gen_analytics"
    /\ \E c \in Rows(IdColumn(customers)) : PoliciesOf(c) = {}
    /\ \E c \in Rows(IdColumn(customers)) :
          /\ PoliciesOf(c) # {}
          /\ ClaimsOf(c) # {}
          /\ DetectionsOf(c) = {}

\* C6: an output file is written only by the last step of its script, after
\* every load and stage has completed; a run that fails leaves it as it was
C6_NoPartialOutput ==
    /\ enhanced_csv # PrevFile => pc \in WrittenStages
    /\ segments_csv # PrevFile => pc = "ca_done"
    /\ pc = "gen_failed" => (enhanced_csv = PrevFile /\ segments_csv = PrevFile)
    /\ pc = "ca_failed" => segments_csv = PrevFile

\* the segmentation run has failed after the analytics table was written
C6_Witness ==
    /\ pc = "ca_failed"
    /\ enhanced_csv # PrevFile
    /\ segments_csv = PrevFile

SegmentTable == ReadCsv(segments_csv)

\* C8: the segment table is in descending lifetime_value order and holds
\* exactly the segmented customers
C8_SortedOutput ==
    pc = "ca_done" =>
        /\ \A i \in 1..(Len(SegmentTable) - 1) :
               SegmentTable[i].lifetime_value.n * SegmentTable[i + 1].lifetime_value.d
                   >= SegmentTable[i + 1].lifetime_value.n
                          * SegmentTable[i].lifetime_value.d
        /\ Len(SegmentTable) = Len(df)
        /\ Rows(SegmentTable) = {Project(df[i], OutputCols) : i \in 1..Len(df)}

\* the sort has moved a later customer in front of an earlier one
C8_Witness ==
    /\ pc = "ca_done"
    /\ Len(df) >= 2
    /\ Lt(df[1].lifetime_value, df[2].lifetime_value)

\* C9: annual_premium_sum = active_policies x avg_annual_premium >= 0 and
\* lifetime_value = annual_premium_sum - total_claim_amount, negative exactly
\* when the claims exceed the premiums
C9_LifetimeValue ==
    /\ AnnualPremiumSum(Num(2), Num(1000)) = Num(2000)
    /\ LifetimeValue(Num(2000), Num(500)) = Num(1500)
    /\ pc \in LifetimeStages =>
        \A i \in 1..Len(df) :
            LET a == df[i].active_policies
                v == df[i].avg_annual_premium
                s == df[i].annual_premium_sum
                t == df[i].total_claim_amount
                l == df[i].lifetime_value
            IN  /\ ~IsNaN(s) /\ ~IsNaN(l)
                /\ s.n * (a.d * v.d) = (a.n * v.n) * s.d
                /\ s.n >= 0
                /\ l.n * (s.d * t.d) = (s.n * t.d - t.n * s.d) * l.d
                /\ (l.n < 0) <=> (t.n * s.d > s.n * t.d)

\* a customer with two active policies whose claims exceed the premiums
C9_Witness ==
    /\ pc = "ca_lifetime"
    /\ \E i \in 1..Len(df) :
          /\ df[i].active_policies = Num(2)
          /\ Neg(df[i].lifetime_value)

RECURSIVE ClaimedAmount(_)
ClaimedAmount(S) ==
    IF S = {} THEN 0
    ELSE LET i == CHOOSE x \in S : TRUE
         IN  claims[i].claim_amount.n + ClaimedAmount(S \ {i})

RECURSIVE TotalClaims(_)
TotalClaims(t) ==
    IF t = <<>> THEN 0 ELSE Head(t).total_claims.n + TotalClaims(Tail(t))

\* C10: total_claims and total_claimed_amount of a customer are the number and
\* the amount of the claims on the customer's policies; a claim counts for the
\* one customer owning its policy, and for none without such a policy
C10_ClaimRollup ==
    pc \in AnalyticsStages =>
        /\ \A i \in 1..Len(AnalyticsTable) :
               LET r == AnalyticsTable[i]
               IN  /\ r.total_claims = Num(Cardinality(ClaimsOf(r.customer_id)))
                   /\ r.total_claimed_amount =
                          Num(ClaimedAmount(ClaimsOf(r.customer_id)))
        /\ \A i \in 1..Len(claims) :
               Cardinality({c \in Rows(IdColumn(customers)) : i \in ClaimsOf(c)})
                   <= 1
        /\ TotalClaims(AnalyticsTable) =
               Cardinality({i \in 1..Len(claims) :
                               \E c \in Rows(IdColumn(customers)) :
                                   i \in ClaimsOf(c)})

\* a customer has claims on two policies
C10_Witness ==
    /\ pc = "gen_analytics"
    /\ \E c \in Rows(IdColumn(customers)) :
       \E i1, i2 \in ClaimsOf(c) : claims[i1].policy_id # claims[i2].policy_id

\* C11: the avg_claim_amount of a customer with claims is the mean of the
\* claim_amount of all the customer's claims, total amount / number of claims
C11_MeanOfAllClaims ==
    pc \in AnalyticsStages =>
        \A i \in 1..Len(AnalyticsTable) :
            LET r == AnalyticsTable[i]
                S == ClaimsOf(r.customer_id)
            IN  S # {} =>
                    /\ ~IsNaN(r.avg_claim_amount)
                    /\ r.avg_claim_amount.n * Cardinality(S) =
                           ClaimedAmount(S) * r.avg_claim_amount.d

\* the stages in which df carries fraud_claims
MetricsStages == {"ca_metrics", "ca_lifetime", "ca_risk", "ca_segments", "ca_done"}

\* the detection records with is_fraudulent true on the claims of customer c
FraudulentOf(c) == {k \in DetectionsOf(c) : fraud[k].is_fraudulent = Num(1)}

RECURSIVE DetectionCount(_)
DetectionCount(t) ==
    IF t = <<>> THEN 0
    ELSE Head(t).detection_count.n + DetectionCount(Tail(t))

\* C12: detection_count, and fraud_claims taken from it, is for every customer
\* the number of detection records with is_fraudulent true on the claims of the
\* customer's policies, 0 without any; a detection on a claim without policy
\* or customer counts for no customer
C12_FraudRollup ==
    /\ pc \in AnalyticsStages =>
           /\ \A i \in 1..Len(AnalyticsTable) :
                  LET r == AnalyticsTable[i]
                  IN  r.detection_count =
                          Num(Cardinality(FraudulentOf(r.customer_id)))
           /\ \A k \in 1..Len(fraud) :
                  Cardinality({c \in Rows(IdColumn(customers)) :
                                  k \in FraudulentOf(c)}) <= 1
           /\ DetectionCount(AnalyticsTable) =
                  Cardinality({k \in 1..Len(fraud) :
                                  \E c \in Rows(IdColumn(customers)) :
                                      k \in FraudulentOf(c)})
    /\ pc \in MetricsStages =>
           \A i \in 1..Len(df) :
               df[i].fraud_claims =
                   Num(Cardinality(FraudulentOf(df[i].customer_id)))

\* fraud_claims was computed for a customer with fraudulent detections on two
\* claims
C12_Witness ==
    /\ pc = "ca_metrics"
    /\ \E i \in 1..Len(df) :
       \E k1, k2 \in FraudulentOf(df[i].customer_id) :
           /\ fraud[k1].claim_id # fraud[k2].claim_id
           /\ df[i].fraud_claims = Num(2)

====
